---- MODULE Spec2Model ----
(***************************************************************************)
(* HyperNote: the versioned binary codec (hypernote/fileio.py), the note   *)
(* model (hypernote/note.py), the registry (hypernote/registry.py) and the *)
(* note-creating front end (hypernote/frontend/main.py).                    *)
(*                                                                         *)
(* Python values are tagged records: [t |-> "int", v |-> 5],               *)
(* [t |-> "str", v |-> <<97>>] (a string is its sequence of code points),  *)
(* [t |-> "float", v |-> n], [t |-> "datetime", v |-> n] (n whole seconds  *)
(* since the epoch), LinkedText and the three note classes.  A byte        *)
(* buffer is a sequence over 0..255.  Every operation that can raise       *)
(* returns a record with an err field naming the Python exception.         *)
(***************************************************************************)
EXTENDS Integers, Sequences, FiniteSets, TLC

\* ------------------------------------------------------------------ bounds
MaxVals == 2
MaxNotes == 2
MaxTable == 4
MaxUid == 2
MaxLinks == 2
MaxRels == 2

\* ------------------------------------------------------------- sequences
RECURSIVE Pow2(_)
Pow2(k) == IF k = 0 THEN 1 ELSE 2 * Pow2(k - 1)

Min(a, b) == IF a < b THEN a ELSE b
Max(a, b) == IF a < b THEN b ELSE a

\* b[:n] of a Python sequence (a negative n counts from the end)
Take(b, n) ==
    LET k == IF n >= 0 THEN Min(n, Len(b)) ELSE Max(0, Len(b) + n)
    IN  SubSeq(b, 1, k)

\* what  del b[:n]  leaves
Drop(b, n) ==
    LET k == IF n >= 0 THEN Min(n, Len(b)) ELSE Max(0, Len(b) + n)
    IN  SubSeq(b, k + 1, Len(b))

\* ------------------------------------------------------ struct.pack('<i')
\* four bytes, little-endian, two's complement
PackI(i) ==
    LET u  == IF i >= 0 THEN i ELSE (i + 1073741824) + 1073741824
        hi == (u \div 16777216) + (IF i >= 0 THEN 0 ELSE 128)
    IN  << u % 256, (u \div 256) % 256, (u \div 65536) % 256, hi >>

\* struct.unpack('<i') of exactly four bytes
UnpackI(b) ==
    LET low == b[1] + 256 * b[2] + 65536 * b[3] + 16777216 * (b[4] % 128)
    IN  IF b[4] >= 128 THEN (low - 1073741824) - 1073741824 ELSE low

\* ------------------------------------------------------ struct.pack('<f')
\* The binary32 encoding of a whole number 0 <= n < 2^31, rounded to
\* nearest, ties to even, as C's double -> float conversion does.
RECURSIVE Log2(_)
Log2(n) == IF n <= 1 THEN 0 ELSE 1 + Log2(n \div 2)

F32Bits(n) ==
    IF n = 0 THEN [exp |-> 0, mant |-> 0]
    ELSE LET e == Log2(n)
         IN  IF e <= 23
             THEN [exp |-> 127 + e, mant |-> (n - Pow2(e)) * Pow2(23 - e)]
             ELSE LET q    == Pow2(e - 23)
                      m    == n \div q
                      r    == n % q
                      up   == (2 * r > q) \/ (2 * r = q /\ m % 2 = 1)
                      m2   == IF up THEN m + 1 ELSE m
                  IN  IF m2 = 16777216
                      THEN [exp |-> 127 + e + 1, mant |-> 0]
                      ELSE [exp |-> 127 + e, mant |-> m2 - 8388608]

PackF(n) ==
    LET f == F32Bits(n)
    IN  << f.mant % 256, (f.mant \div 256) % 256,
           ((f.mant \div 65536) % 128) + 128 * (f.exp % 2), f.exp \div 2 >>

\* struct.unpack('<f') of exactly four bytes.  ok is FALSE for the bit
\* patterns that are not a whole number in 0 .. 2^31-1 (negative,
\* fractional, huge, inf, nan): they lie outside the modelled floats.
UnpackF(b) ==
    LET sign == b[4] \div 128
        exp  == (b[4] % 128) * 2 + (b[3] \div 128)
        mant == (b[3] % 128) * 65536 + b[2] * 256 + b[1]
        e    == exp - 127
        M    == 8388608 + mant
    IN  IF sign = 0 /\ exp = 0 /\ mant = 0 THEN [ok |-> TRUE, v |-> 0]
        ELSE IF sign = 1 \/ e < 0 \/ e > 30 THEN [ok |-> FALSE, v |-> 0]
        ELSE IF e >= 23 THEN [ok |-> TRUE, v |-> M * Pow2(e - 23)]
        ELSE IF M % Pow2(23 - e) = 0
             THEN [ok |-> TRUE, v |-> M \div Pow2(23 - e)]
             ELSE [ok |-> FALSE, v |-> 0]

\* ------------------------------------------------------------------ UTF-8
\* bytes(s, 'utf8') for one code point
Utf8Char(c) ==
    IF c < 128 THEN << c >>
    ELSE IF c < 2048 THEN << 192 + (c \div 64), 128 + (c % 64) >>
    ELSE IF c < 65536
         THEN << 224 + (c \div 4096), 128 + ((c \div 64) % 64), 128 + (c % 64) >>
         ELSE << 240 + (c \div 262144), 128 + ((c \div 4096) % 64),
                 128 + ((c \div 64) % 64), 128 + (c % 64) >>

RECURSIVE Utf8Encode(_)
Utf8Encode(s) ==
    IF s = << >> THEN << >> ELSE Utf8Char(Head(s)) \o Utf8Encode(Tail(s))

IsCont(x) == x >= 128 /\ x <= 191

\* bytes.decode('utf8'), strict: ok is FALSE where Python raises
\* UnicodeDecodeError (truncated, overlong or stray bytes)
RECURSIVE Utf8Decode(_)
Utf8Decode(b) ==
    IF b = << >> THEN [ok |-> TRUE, s |-> << >>]
    ELSE LET h == b[1]
             n == IF h < 128 THEN 1
                  ELSE IF h >= 194 /\ h <= 223 THEN 2
                  ELSE IF h >= 224 /\ h <= 239 THEN 3
                  ELSE IF h >= 240 /\ h <= 244 THEN 4
                  ELSE 0
         IN  IF n = 0 \/ Len(b) < n THEN [ok |-> FALSE, s |-> << >>]
             ELSE IF \E k \in 2..n : ~IsCont(b[k]) THEN [ok |-> FALSE, s |-> << >>]
             ELSE IF (h = 224 /\ b[2] < 160) \/ (h = 237 /\ b[2] > 159)
                     \/ (h = 240 /\ b[2] < 144) \/ (h = 244 /\ b[2] > 143)
                  THEN [ok |-> FALSE, s |-> << >>]
             ELSE LET c == IF n = 1 THEN h
                           ELSE IF n = 2 THEN (h - 192) * 64 + (b[2] - 128)
                           ELSE IF n = 3
                                THEN (h - 224) * 4096 + (b[2] - 128) * 64 + (b[3] - 128)
                                ELSE (h - 240) * 262144 + (b[2] - 128) * 4096
                                     + (b[3] - 128) * 64 + (b[4] - 128)
                      r == Utf8Decode(SubSeq(b, n + 1, Len(b)))
                  IN  IF r.ok THEN [ok |-> TRUE, s |-> << c >> \o r.s] ELSE r

\* ----------------------------------------------------------- Python values
IntV(i) == [t |-> "int", v |-> i]
StrV(s) == [t |-> "str", v |-> s]
FloatV(n) == [t |-> "float", v |-> n]
TimeV(n) == [t |-> "datetime", v |-> n]
Link(start, end, dest) == [start |-> start, end |-> end, dest |-> dest]
LinkedText(text, links) == [t |-> "LinkedText", text |-> text, links |-> links]

\* the attribute tuples the encoders and decoders name
SchemeT == << "uid", "name", "cmd", "ver", "desc" >>
SchemeA == << "uid", "shellcmd", "toolcmd", "time", "desc" >>
SchemeD == << "uid", "name", "path", "src", "desc" >>

\* ---------------------------------------------------------------- encoders
\* An encoder returns [err, data]; err names the exception raised.
Good(data) == [err |-> "ok", data |-> data]
Bad(e) == [err |-> e, data |-> << >>]
Cat(r1, r2) ==
    IF r1.err # "ok" THEN r1
    ELSE IF r2.err # "ok" THEN r2
    ELSE Good(r1.data \o r2.data)

\* the header the encoder wrapper prepends: type code byte, version as '<i'
encoder(typecode, version, r) == Cat(Good(<< typecode >> \o PackI(version)), r)

e_i_1(i) == encoder(105, 1, Good(PackI(i)))

e_f_1(f) == encoder(102, 1, Good(PackF(f)))

e_s_1(s) == encoder(115, 1, Cat(e_i_1(Len(s)), Good(Utf8Encode(s))))

e_t_1(ts) == encoder(116, 1, e_f_1(ts))

\* struct.pack('<i', x) applied to an attribute that may hold any value
PackAttr(x) == IF x.t = "int" THEN e_i_1(x.v) ELSE Bad("struct.error")

RECURSIVE get_encoder(_)
RECURSIVE EncodeLinks(_)
RECURSIVE encode_from_datascheme(_, _)

EncodeLinks(links) ==
    IF links = << >> THEN Good(<< >>)
    ELSE LET l == Head(links)
         IN  Cat(PackAttr(l.start),
                 Cat(PackAttr(l.end),
                     Cat(get_encoder(l.dest), EncodeLinks(Tail(links)))))

e_L_1(lt) ==
    encoder(76, 1,
        Cat(IF lt.text.t = "str" THEN e_s_1(lt.text.v) ELSE Bad("TypeError"),
            Cat(e_i_1(Len(lt.links)), EncodeLinks(lt.links))))

encode_from_datascheme(n, scheme) ==
    IF scheme = << >> THEN Good(<< >>)
    ELSE IF Head(scheme) \notin DOMAIN n THEN Bad("AttributeError")
    ELSE Cat(get_encoder(n[Head(scheme)]),
             encode_from_datascheme(n, Tail(scheme)))

e_T_1(n) == encoder(84, 1, encode_from_datascheme(n, SchemeT))

e_A_1(n) == encoder(65, 1, encode_from_datascheme(n, SchemeA))

e_D_1(n) == encoder(68, 1, encode_from_datascheme(n, SchemeD))

\* get_encoder(type(val))(val)
get_encoder(val) ==
    CASE val.t = "str" -> e_s_1(val.v)
      [] val.t = "int" -> e_i_1(val.v)
      [] val.t = "float" -> e_f_1(val.v)
      [] val.t = "datetime" -> e_t_1(val.v)
      [] val.t = "LinkedText" -> e_L_1(val)
      [] val.t = "ToolNote" -> e_T_1(val)
      [] val.t = "ActionNote" -> e_A_1(val)
      [] val.t = "DataNote" -> e_D_1(val)
      [] OTHER -> Bad("KeyError")

\* ---------------------------------------------------------------- decoders
\* (typecode, version) -> decoder, as the decoder wrapper registers them;
\* the timestamp decoder is the function named e_t_1 at fileio.py:177
decoders ==
    [k \in { << 115, 1 >>, << 105, 1 >>, << 102, 1 >>, << 116, 1 >>,
             << 76, 1 >>, << 84, 1 >>, << 65, 1 >>, << 68, 1 >> } |->
        CASE k[1] = 115 -> "d_s_1"
          [] k[1] = 105 -> "d_i_1"
          [] k[1] = 102 -> "d_f_1"
          [] k[1] = 116 -> "d_t_1"
          [] k[1] = 76 -> "d_L_1"
          [] k[1] = 84 -> "d_T_1"
          [] k[1] = 65 -> "d_A_1"
          [] k[1] = 68 -> "d_D_1"]

\* get_decoder falling back to the version-1 decoder of the type code
get_decoder_any_version(typecode, version) ==
    IF << typecode, 1 >> \in DOMAIN decoders
    THEN decoders[<< typecode, 1 >>]
    ELSE "KeyError"

\* the decoder for the pair, or "KeyError"
get_decoder(typecode, version) ==
    IF << typecode, version >> \in DOMAIN decoders
    THEN decoders[<< typecode, version >>]
    ELSE "KeyError"

\* A decoder returns [err, val, rest, calls]: the value, the buffer as the
\* call leaves it (the bytearray is consumed in place, also when the call
\* raises), and one entry [tc, ver, dec] per load_object call that read a
\* header, in order: the pair it read and the decoder it invoked ("none"
\* when get_decoder raised).
None == [t |-> "NoneType"]
Dec(val, rest, calls) == [err |-> "ok", val |-> val, rest |-> rest, calls |-> calls]
Raise(e, rest, calls) == [err |-> e, val |-> None, rest |-> rest, calls |-> calls]

d_i_1(b) ==
    IF Len(b) < 4 THEN Raise("struct.error", b, << >>)
    ELSE Dec(IntV(UnpackI(SubSeq(b, 1, 4))), Drop(b, 4), << >>)

d_f_1(b) ==
    IF Len(b) < 4 THEN Raise("struct.error", b, << >>)
    ELSE LET f == UnpackF(SubSeq(b, 1, 4))
         IN  IF f.ok THEN Dec(FloatV(f.v), Drop(b, 4), << >>)
             ELSE Raise("UnmodelledFloat", Drop(b, 4), << >>)

RECURSIVE load_object(_)
RECURSIVE DecodeLinks(_, _, _, _)
RECURSIVE decode_from_datascheme(_, _, _, _)

d_s_1(b) ==
    LET r == load_object(b)
    IN  IF r.err # "ok" THEN r
        ELSE IF r.val.t # "int" THEN Raise("TypeError", r.rest, r.calls)
        ELSE LET u == Utf8Decode(Take(r.rest, r.val.v))
             IN  IF ~u.ok THEN Raise("UnicodeDecodeError", r.rest, r.calls)
                 ELSE Dec(StrV(u.s), Drop(r.rest, r.val.v), r.calls)

\* the decoder registered for ('t', 1)
d_t_1(b) ==
    LET r == load_object(b)
    IN  IF r.err # "ok" THEN r
        ELSE IF r.val.t \notin { "float", "int" }
             THEN Raise("TypeError", r.rest, r.calls)
        ELSE Dec(TimeV(r.val.v), r.rest, r.calls)

\* the loop of d_L_1: n links still to read into lt
DecodeLinks(n, lt, b, calls) ==
    IF n <= 0 THEN Dec(lt, b, calls)
    ELSE LET s == load_object(b)
         IN  IF s.err # "ok" THEN Raise(s.err, s.rest, calls \o s.calls)
         ELSE LET e == load_object(s.rest)
         IN  IF e.err # "ok" THEN Raise(e.err, e.rest, calls \o s.calls \o e.calls)
         ELSE LET u == load_object(e.rest)
                  c == calls \o s.calls \o e.calls \o u.calls
         IN  IF u.err # "ok" THEN Raise(u.err, u.rest, c)
         ELSE DecodeLinks(n - 1,
                  LinkedText(lt.text, Append(lt.links, Link(s.val, e.val, u.val))),
                  u.rest, c)

d_L_1(b) ==
    LET text == load_object(b)
    IN  IF text.err # "ok" THEN text
        ELSE LET links_len == load_object(text.rest)
                 c == text.calls \o links_len.calls
             IN  IF links_len.err # "ok" THEN Raise(links_len.err, links_len.rest, c)
                 ELSE IF links_len.val.t # "int"
                      THEN Raise("TypeError", links_len.rest, c)
                 ELSE DecodeLinks(links_len.val.v, LinkedText(text.val, << >>),
                                  links_len.rest, c)

\* obj starts as the empty object of class dtype; one load_object per attribute
decode_from_datascheme(data, obj, scheme, calls) ==
    IF scheme = << >> THEN Dec(obj, data, calls)
    ELSE LET r == load_object(data)
         IN  IF r.err # "ok" THEN Raise(r.err, r.rest, calls \o r.calls)
             ELSE decode_from_datascheme(r.rest, obj @@ (Head(scheme) :> r.val),
                                         Tail(scheme), calls \o r.calls)

d_T_1(d) == decode_from_datascheme(d, [t |-> "ToolNote"], SchemeT, << >>)

d_A_1(d) == decode_from_datascheme(d, [t |-> "ActionNote"], SchemeA, << >>)

d_D_1(d) == decode_from_datascheme(d, [t |-> "DataNote"], SchemeD, << >>)

\* chr(data[0]); del data[0]
extract_typecode(data) ==
    IF data = << >> THEN [err |-> "IndexError", tc |-> 0, rest |-> data]
    ELSE [err |-> "ok", tc |-> Head(data), rest |-> Tail(data)]

\* struct.unpack('<i', data[:4])[0]; del data[:4]
extract_version(data) ==
    IF Len(data) < 4 THEN [err |-> "struct.error", ver |-> 0, rest |-> data]
    ELSE [err |-> "ok", ver |-> UnpackI(SubSeq(data, 1, 4)), rest |-> Drop(data, 4)]

\* the call  dec(b)  of load_object
Invoke(dec, b) ==
    CASE dec = "d_s_1" -> d_s_1(b)
      [] dec = "d_i_1" -> d_i_1(b)
      [] dec = "d_f_1" -> d_f_1(b)
      [] dec = "d_t_1" -> d_t_1(b)
      [] dec = "d_L_1" -> d_L_1(b)
      [] dec = "d_T_1" -> d_T_1(b)
      [] dec = "d_A_1" -> d_A_1(b)
      [] dec = "d_D_1" -> d_D_1(b)

load_object(b) ==
    LET tc == extract_typecode(b)
    IN  IF tc.err # "ok" THEN Raise(tc.err, tc.rest, << >>)
        ELSE LET ver == extract_version(tc.rest)
             IN  IF ver.err # "ok" THEN Raise(ver.err, ver.rest, << >>)
                 ELSE LET dec == get_decoder(tc.tc, ver.ver)
                          call(d) == [tc |-> tc.tc, ver |-> ver.ver, dec |-> d]
                      IN  IF dec = "KeyError"
                          THEN Raise("KeyError", ver.rest, << call("none") >>)
                          ELSE LET obj == Invoke(dec, ver.rest)
                               IN  [obj EXCEPT !.calls = << call(dec) >> \o @]

\* ---------------------------------------------------------------- registry
\* == of two Python values: numbers by value, everything else by type and
\* content
PyEq(a, b) ==
    IF a.t \in { "int", "float" } /\ b.t \in { "int", "float" } THEN a.v = b.v
    ELSE a.t = b.t /\ a = b

\* str.lower() on ASCII and Latin-1 letters
LowerChar(c) ==
    IF (c >= 65 /\ c <= 90) \/ (c >= 192 /\ c <= 222 /\ c # 215) THEN c + 32 ELSE c

lower(s) == [i \in 1..Len(s) |-> LowerChar(s[i])]

\* str(i) for an integer
RECURSIVE Digits(_)
Digits(n) ==
    IF n < 0 THEN << 45 >> \o Digits(0 - n)
    ELSE IF n < 10 THEN << 48 + n >>
    ELSE Digits(n \div 10) \o << 48 + (n % 10) >>

\* str(v) for the values a searchable attribute holds; the text of a float
\* or datetime is not modelled
Str(v) ==
    CASE v.t = "str" -> [err |-> "ok", s |-> v.v]
      [] v.t = "int" -> [err |-> "ok", s |-> Digits(v.v)]
      [] v.t = "LinkedText" ->
           IF v.text.t = "str" THEN [err |-> "ok", s |-> v.text.v]
           ELSE [err |-> "TypeError", s |-> << >>]
      [] OTHER -> [err |-> "UnmodelledStr", s |-> << >>]

\* one entry in the search table
STEntry(text, uid) == [text |-> text, uid |-> uid]

\* UniqueUids without the membership test
UniqueUids_all(matches, acc) == acc \o [i \in 1..Len(matches) |-> matches[i].uid]

\* the uids of the matches, each once, in order of first appearance
RECURSIVE UniqueUids(_, _)
UniqueUids(matches, acc) ==
    IF matches = << >> THEN acc
    ELSE UniqueUids(Tail(matches),
             IF \E i \in 1..Len(acc) : PyEq(acc[i], Head(matches).uid)
             THEN acc ELSE Append(acc, Head(matches).uid))

\* search comparing without .lower()
search_case_sensitive(table, query) ==
    LET Hit(e) == e.text = query
    IN  UniqueUids(SelectSeq(table, Hit), << >>)

search(table, query) ==
    LET Hit(e) == lower(e.text) = lower(query)
    IN  UniqueUids(SelectSeq(table, Hit), << >>)

\* the classes that have the attribute  searchable
IsNote(obj) == obj.t \in { "ToolNote", "ActionNote", "DataNote" }

\* the class attribute  searchable
searchable(note) ==
    CASE note.t = "ToolNote" -> << "name", "cmd" >>
      [] note.t = "ActionNote" -> << >>
      [] note.t = "DataNote" -> << "name", "path" >>

\* d[key] = value  on a dict kept as the sequence of its values in insertion
\* order, each value carrying its key in .uid
DictSet(d, note) ==
    IF \E i \in 1..Len(d) : PyEq(d[i].uid, note.uid)
    THEN [i \in 1..Len(d) |-> IF PyEq(d[i].uid, note.uid) THEN note ELSE d[i]]
    ELSE Append(d, note)

\* first loop of add: the exception the check of the attributes raises, or "ok"
RECURSIVE CheckSearchables(_, _, _)
CheckSearchables(table, note, attrs) ==
    IF attrs = << >> THEN "ok"
    ELSE IF Head(attrs) \notin DOMAIN note THEN "AttributeError"
    ELSE LET query == Str(note[Head(attrs)])
         IN  IF query.err # "ok" THEN query.err
             ELSE IF search(table, query.s) # << >> THEN "RuntimeError"
             ELSE CheckSearchables(table, note, Tail(attrs))

\* second loop of add
RECURSIVE RegisterTerms(_, _, _)
RegisterTerms(table, note, attrs) ==
    IF attrs = << >> THEN table
    ELSE RegisterTerms(Append(table, STEntry(Str(note[Head(attrs)]).s, note.uid)),
                       note, Tail(attrs))

\* add registering each attribute as soon as it has passed its own check
RECURSIVE CheckAndRegister(_, _, _)
CheckAndRegister(reg, note, attrs) ==
    IF attrs = << >> THEN reg
    ELSE IF Head(attrs) \notin DOMAIN note THEN [reg EXCEPT !.err = "AttributeError"]
    ELSE LET query == Str(note[Head(attrs)])
         IN  IF query.err # "ok" THEN [reg EXCEPT !.err = query.err]
             ELSE IF search(reg.search_table, query.s) # << >>
                  THEN [reg EXCEPT !.err = "RuntimeError"]
             ELSE CheckAndRegister(
                      [reg EXCEPT !.search_table = Append(@, STEntry(query.s, note.uid))],
                      note, Tail(attrs))

add_incremental(reg, note) ==
    IF ~IsNote(note) \/ "uid" \notin DOMAIN note
    THEN [reg EXCEPT !.err = "AttributeError"]
    ELSE CheckAndRegister([reg EXCEPT !.notes = DictSet(@, note)], note,
                          searchable(note))

\* add(note) on the registry reg = [notes, search_table]
add(reg, note) ==
    LET attrs == IF IsNote(note) THEN searchable(note) ELSE << >>
    IN  IF ~IsNote(note) THEN [reg EXCEPT !.err = "AttributeError"]
        ELSE LET chk == CheckSearchables(reg.search_table, note, attrs)
             IN  IF chk # "ok" THEN [reg EXCEPT !.err = chk]
                 ELSE IF "uid" \notin DOMAIN note
                      THEN [reg EXCEPT !.err = "AttributeError"]
                 ELSE [err |-> "ok",
                       notes |-> DictSet(reg.notes, note),
                       search_table |-> RegisterTerms(reg.search_table, note, attrs)]

Registry(n, st) == [err |-> "ok", notes |-> n, search_table |-> st]

\* the while loop of load: decode the next object, add it; decoded counts
\* the objects load_object returned, left is the buffer when the loop ends
RECURSIVE LoadLoop(_, _, _)
LoadLoop(data_all, reg, decoded) ==
    IF data_all = << >>
    THEN [reg |-> reg, left |-> data_all, decoded |-> decoded, calls |-> << >>]
    ELSE LET note == load_object(data_all)
         IN  IF note.err # "ok"
             THEN [reg |-> [reg EXCEPT !.err = note.err], left |-> note.rest,
                   decoded |-> decoded, calls |-> note.calls]
             ELSE LET r == add(reg, note.val)
                  IN  IF r.err # "ok"
                      THEN [reg |-> r, left |-> note.rest,
                            decoded |-> decoded + 1, calls |-> note.calls]
                      ELSE LET l == LoadLoop(note.rest, r, decoded + 1)
                           IN  [l EXCEPT !.calls = note.calls \o @]

\* the file system holds at most the one registry file
NoFile == [exists |-> FALSE, data |-> << >>]
File(data) == [exists |-> TRUE, data |-> data]

\* a path argument: None, or the path of the registry file
RegPath == [t |-> "path"]

\* load taking a missing file for an empty one
load_missing_is_empty(path, f, reg) ==
    IF path = None \/ ~f.exists
    THEN [reg |-> reg, left |-> << >>, decoded |-> 0, calls |-> << >>]
    ELSE LoadLoop(f.data, reg, 0)

\* load(path)
load(path, f, reg) ==
    IF path = None
    THEN [reg |-> reg, left |-> << >>, decoded |-> 0, calls |-> << >>]
    ELSE IF ~f.exists
    THEN [reg |-> [reg EXCEPT !.err = "FileNotFoundError"], left |-> << >>,
          decoded |-> 0, calls |-> << >>]
    ELSE LoadLoop(f.data, reg, 0)

\* the loop of save: what has been written when it ends or raises
RECURSIVE SaveLoop(_, _)
SaveLoop(d, written) ==
    IF d = << >> THEN [err |-> "ok", data |-> written]
    ELSE LET data == get_encoder(Head(d))
         IN  IF data.err # "ok" THEN [err |-> data.err, data |-> written]
             ELSE SaveLoop(Tail(d), written \o data.data)

\* save(path): the file afterwards; open(path, 'wb') creates or empties it
\* before the loop writes
save(path, f, d) ==
    IF path = None THEN [err |-> "ok", file |-> f]
    ELSE LET w == SaveLoop(d, << >>)
         IN  [err |-> w.err, file |-> File(w.data)]

\* ------------------------------------------------------------ note classes
AUTOFILL == << >>
AUTOFILL_SAFETY == << 64, 64 >>

\* field -> loader, in the order of the class attribute  parts
parts(note_type) ==
    CASE note_type = "ToolNote" ->
           << << "name", "raw_string" >>, << "cmd", "raw_string" >>,
              << "ver", "raw_string" >>, << "desc", "autolink_text" >> >>
      [] note_type = "ActionNote" ->
           << << "shellcmd", "autolink_text" >>, << "toolcmd", "autolink_text" >>,
              << "time", "parse_timestamp" >>, << "desc", "autolink_text" >> >>
      [] note_type = "DataNote" ->
           << << "name", "raw_string" >>, << "path", "normalize_path" >>,
              << "src", "autolink_text" >>, << "desc", "autolink_text" >> >>

required(note_type) ==
    CASE note_type = "ToolNote" -> << "cmd" >>
      [] note_type = "ActionNote" -> << "shellcmd" >>
      [] note_type = "DataNote" -> << "path" >>

CreationStatus ==
    [insufficient_info |-> FALSE, autofill_failed |-> FALSE,
     autofill_unsure |-> FALSE, unsure_fields |-> << >>,
     autolinked_words |-> << >>]

\* [start, end) of each run of non-whitespace characters, 0-based;
\* i is the 0-based index of the next character, start is -1 outside a word
whitespace == { 32, 9, 10 }

RECURSIVE WordScan(_, _, _, _)
WordScan(source, i, start, bounds) ==
    IF i = Len(source)
    THEN IF start >= 0 THEN Append(bounds, << start, Len(source) >>) ELSE bounds
    ELSE LET ch == source[i + 1]
         IN  IF start < 0 /\ ch \notin whitespace
             THEN WordScan(source, i + 1, i, bounds)
             ELSE IF start >= 0 /\ ch \in whitespace
             THEN WordScan(source, i + 1, -1, Append(bounds, << start, i >>))
             ELSE WordScan(source, i + 1, start, bounds)

\* find_word_boundaries without the append after the loop
find_word_boundaries_no_tail(source) ==
    LET bounds == WordScan(source, 0, -1, << >>)
    IN  IF source # << >> /\ source[Len(source)] \notin whitespace
        THEN SubSeq(bounds, 1, Len(bounds) - 1)
        ELSE bounds

find_word_boundaries(source) == WordScan(source, 0, -1, << >>)

\* get answering None for an identifier that is not stored
get_or_none(d, uid) ==
    IF \E i \in 1..Len(d) : PyEq(d[i].uid, uid)
    THEN [err |-> "ok", note |-> d[CHOOSE i \in 1..Len(d) : PyEq(d[i].uid, uid)]]
    ELSE [err |-> "ok", note |-> None]

\* registry.get(uid): the note, or KeyError
get(d, uid) ==
    IF \E i \in 1..Len(d) : PyEq(d[i].uid, uid)
    THEN [err |-> "ok", note |-> d[CHOOSE i \in 1..Len(d) : PyEq(d[i].uid, uid)]]
    ELSE [err |-> "KeyError", note |-> None]

\* Note.__str__ of a ToolNote or DataNote: "Tool 'name'", "Data 'name'";
\* ActionNote.__str__ returns None, which str() rejects
NoteStr(note) ==
    IF note.t = "ActionNote" THEN [err |-> "TypeError", s |-> << >>]
    ELSE IF "name" \notin DOMAIN note THEN [err |-> "AttributeError", s |-> << >>]
    ELSE LET n == Str(note.name)
             label == IF note.t = "ToolNote" THEN << 84, 111, 111, 108 >>
                      ELSE << 68, 97, 116, 97 >>
         IN  IF n.err # "ok" THEN n
             ELSE [err |-> "ok", s |-> label \o << 32, 39 >> \o n.s \o << 39 >>]

\* d[word] = linked on the dict autolinked_words, kept as its items in order
WordSet(words, word, linked) ==
    IF \E i \in 1..Len(words) : words[i].word = word
    THEN [i \in 1..Len(words) |->
             IF words[i].word = word THEN [word |-> word, linked |-> linked]
             ELSE words[i]]
    ELSE Append(words, [word |-> word, linked |-> linked])

\* LinkedText.link(pos, uid)
link(lt, start, end, uid) == [lt EXCEPT !.links = Append(@, Link(start, end, uid))]

\* the loop of autolink_text over the word boundaries
RECURSIVE LinkWords(_, _, _, _, _)
LinkWords(text, bounds, reg, lt, words) ==
    IF bounds = << >> THEN [err |-> "ok", val |-> lt, words |-> words]
    ELSE LET wb == Head(bounds)
             word == SubSeq(text, wb[1] + 1, wb[2])
             matches == search(reg.search_table, word)
         IN  IF matches = << >>
             THEN LinkWords(text, Tail(bounds), reg, lt, words)
             ELSE LET match_uid == matches[1]
                      n == get(reg.notes, match_uid)
                      str == IF n.err = "ok" THEN NoteStr(n.note)
                             ELSE [err |-> n.err, s |-> << >>]
                  IN  IF str.err # "ok"
                      THEN [err |-> str.err, val |-> lt, words |-> words]
                      ELSE LinkWords(text, Tail(bounds), reg,
                               link(lt, IntV(wb[1]), IntV(wb[2]), match_uid),
                               WordSet(words, word, str.s))

\* autolink_text(text, note): the LinkedText and the new autolinked_words
autolink_text(text, reg, words) ==
    LinkWords(text, find_word_boundaries(text), reg,
              LinkedText(StrV(text), << >>), words)

\* str(datetime) for the two instants of the model, in a UTC time zone:
\* "2023-11-14 22:13:20" and "2023-11-14 22:13:21"
TimeText(n) ==
    << 50, 48, 50, 51, 45, 49, 49, 45, 49, 52, 32, 50, 50, 58, 49, 51, 58, 50 >>
        \o << 48 + (n % 10) >>

\* parse_timestamp: dateutil parses the two texts above; "x" is no date
parse_timestamp(text) ==
    LET known == { 1700000000, 1700000001 }
    IN  IF \E n \in known : TimeText(n) = text
        THEN [err |-> "ok", val |-> TimeV(CHOOSE n \in known : TimeText(n) = text)]
        ELSE [err |-> "RuntimeError", val |-> None]

\* normalize_path with the notebook directory as working directory, for a
\* relative path below it ("./b" -> "b") or an absolute path outside it;
\* find_registry() is None when there is no registry file
RECURSIVE StripDot(_)
StripDot(path) ==
    IF Len(path) >= 2 /\ path[1] = 46 /\ path[2] = 47
    THEN StripDot(SubSeq(path, 3, Len(path)))
    ELSE path

normalize_path(path, registryFound) ==
    IF ~registryFound THEN [err |-> "TypeError", val |-> None]
    ELSE [err |-> "ok", val |-> StrV(StripDot(path))]

\* s.split(sep)[0] and s.split(sep)[-1]
RECURSIVE SplitFirst(_, _)
SplitFirst(str, sep) ==
    IF str = << >> \/ Head(str) = sep THEN << >>
    ELSE << Head(str) >> \o SplitFirst(Tail(str), sep)

RECURSIVE SplitLast(_, _)
SplitLast(str, sep) ==
    IF \E i \in 1..Len(str) : str[i] = sep
    THEN SplitLast(Tail(str), sep)
    ELSE str

\* the outcomes of utils.autodetect_version(cmd): None, the first line the
\* tool printed, or the exception Popen raises when cmd cannot be run
DetectOutcomes == { "None", "found", "raises" }
DetectedVersion == << 49 >>

\* ToolNote.autofill detecting the version for the plain sentinel too
ToolNote_autofill_eager(vals, cstatus, env) ==
    IF "name" \notin DOMAIN vals \/ "ver" \notin DOMAIN vals
    THEN [err |-> "KeyError", vals |-> vals, cstatus |-> cstatus]
    ELSE LET v1 == IF vals.name = AUTOFILL
                   THEN [vals EXCEPT !.name = vals.cmd] ELSE vals
         IN  IF v1.ver \notin { AUTOFILL, AUTOFILL_SAFETY }
             THEN [err |-> "ok", vals |-> v1, cstatus |-> cstatus]
             ELSE IF env.detect = "raises"
             THEN [err |-> "FileNotFoundError", vals |-> v1, cstatus |-> cstatus]
             ELSE IF env.detect = "None"
             THEN [err |-> "ok", vals |-> v1,
                   cstatus |-> [cstatus EXCEPT !.autofill_failed = TRUE]]
             ELSE [err |-> "ok", vals |-> [v1 EXCEPT !.ver = DetectedVersion],
                   cstatus |-> [cstatus EXCEPT !.autofill_unsure = TRUE,
                                    !.unsure_fields = Append(@, "ver")]]

\* ToolNote.autofill(vals): the new vals and cstatus
ToolNote_autofill(vals, cstatus, env) ==
    IF "name" \notin DOMAIN vals \/ "ver" \notin DOMAIN vals
    THEN [err |-> "KeyError", vals |-> vals, cstatus |-> cstatus]
    ELSE LET v1 == IF vals.name = AUTOFILL
                   THEN [vals EXCEPT !.name = vals.cmd] ELSE vals
         IN  IF v1.ver # AUTOFILL_SAFETY
             THEN [err |-> "ok", vals |-> v1, cstatus |-> cstatus]
             ELSE IF env.detect = "raises"
             THEN [err |-> "FileNotFoundError", vals |-> v1, cstatus |-> cstatus]
             ELSE IF env.detect = "None"
             THEN [err |-> "ok", vals |-> v1,
                   cstatus |-> [cstatus EXCEPT !.autofill_failed = TRUE]]
             ELSE [err |-> "ok", vals |-> [v1 EXCEPT !.ver = DetectedVersion],
                   cstatus |-> [cstatus EXCEPT !.autofill_unsure = TRUE,
                                    !.unsure_fields = Append(@, "ver")]]

\* autofill(vals) of the three classes: the new vals and cstatus
autofill(note_type, vals, cstatus, env) ==
    CASE note_type = "ToolNote" -> ToolNote_autofill(vals, cstatus, env)
      [] note_type = "ActionNote" ->
           IF "toolcmd" \notin DOMAIN vals \/ "time" \notin DOMAIN vals
           THEN [err |-> "KeyError", vals |-> vals, cstatus |-> cstatus]
           ELSE LET v1 == IF vals.toolcmd = AUTOFILL
                          THEN [vals EXCEPT !.toolcmd = SplitFirst(vals.shellcmd, 32)]
                          ELSE vals
                    v2 == IF v1.time = AUTOFILL
                          THEN [v1 EXCEPT !.time = TimeText(env.now)] ELSE v1
                IN  [err |-> "ok", vals |-> v2, cstatus |-> cstatus]
      [] note_type = "DataNote" ->
           IF "name" \notin DOMAIN vals
           THEN [err |-> "KeyError", vals |-> vals, cstatus |-> cstatus]
           ELSE [err |-> "ok",
                 vals |-> IF vals.name = AUTOFILL
                          THEN [vals EXCEPT !.name = SplitLast(vals.path, 47)]
                          ELSE vals,
                 cstatus |-> cstatus]

\* part.loader(val, self): the value loaded and the autolinked_words of
\* the note's cstatus after the call
loader(part, val, reg, words, env) ==
    CASE part[2] = "raw_string" -> [err |-> "ok", val |-> StrV(val), words |-> words]
      [] part[2] = "autolink_text" -> autolink_text(val, reg, words)
      [] part[2] = "parse_timestamp" -> parse_timestamp(val) @@ [words |-> words]
      [] part[2] = "normalize_path" ->
             normalize_path(val, env.registryFound) @@ [words |-> words]

\* fill(vals): one loader call per part, then setattr of what it returned
RECURSIVE fill(_, _, _, _, _, _)
RECURSIVE setattr(_, _, _, _, _, _, _)
fill(obj, ps, vals, cstatus, reg, env) ==
    IF ps = << >> THEN [err |-> "ok", note |-> obj, cstatus |-> cstatus]
    ELSE IF Head(ps)[1] \notin DOMAIN vals
    THEN [err |-> "KeyError", note |-> obj, cstatus |-> cstatus]
    ELSE setattr(obj, ps, vals, cstatus, reg, env,
                 loader(Head(ps), vals[Head(ps)[1]], reg,
                        cstatus.autolinked_words, env))

setattr(obj, ps, vals, cstatus, reg, env, processed) ==
    IF processed.err # "ok"
    THEN [err |-> processed.err, note |-> obj, cstatus |-> cstatus]
    ELSE fill(obj @@ (Head(ps)[1] :> processed.val), Tail(ps), vals,
              [cstatus EXCEPT !.autolinked_words = processed.words], reg, env)

\* Note.__init__(uid, vals): the object built and its cstatus.  When a
\* required field is missing the constructor returns with only uid and
\* cstatus set; no path raises CreationFailure.
Note__init__(note_type, uid, vals, reg, env) ==
    LET self == [t |-> note_type, uid |-> IntV(uid)]
        req == required(note_type)
    IN  IF \E k \in 1..Len(req) : req[k] \notin DOMAIN vals
        THEN [err |-> "ok", note |-> self,
              cstatus |-> [CreationStatus EXCEPT !.insufficient_info = TRUE]]
        ELSE LET a == autofill(note_type, vals, CreationStatus, env)
             IN  IF a.err # "ok"
                 THEN [err |-> a.err, note |-> self, cstatus |-> a.cstatus]
                 ELSE fill(self, parts(note_type), a.vals, a.cstatus, reg, env)

\* confirm_note: one prompt for the unsure fields, one for the autolinked
\* words; answers are the user's replies, TRUE for yes
confirm_note(cstatus, answers) ==
    /\ (cstatus.unsure_fields # << >> => answers[1])
    /\ (cstatus.autolinked_words # << >> => answers[2])

\* create_note_standard(note_type, vals), from the point where
\* note_type(registry.gen_uid(), vals) has returned new_note: the registry
\* after the call, its err naming the exception it ends with
create_note_standard(new_note, reg, answers) ==
    IF new_note.err # "ok" THEN [reg EXCEPT !.err = new_note.err]
    ELSE IF ~confirm_note(new_note.cstatus, answers)
    THEN [reg EXCEPT !.err = "RuntimeError"]
    ELSE add(reg, new_note.note)

\* LinkedText.__add__(self, other): the new LinkedText, and the two operands
\* as the call leaves them
LinkedText__add__nocopy(self, other) ==
    LET off == Len(self.text.v)
        c_links == self.links \o
                   [i \in 1..Len(other.links) |->
                       Link(IntV(other.links[i].start.v + off),
                            IntV(other.links[i].end.v + off), other.links[i].dest)]
    IN  [ret |-> LinkedText(StrV(self.text.v \o other.text.v), c_links),
         self |-> [self EXCEPT !.links = c_links], other |-> other]

LinkedText__add__(self, other) ==
    LET off == Len(self.text.v)
        c_links == self.links \o
                   [i \in 1..Len(other.links) |->
                       Link(IntV(other.links[i].start.v + off),
                            IntV(other.links[i].end.v + off), other.links[i].dest)]
    IN  [ret |-> LinkedText(StrV(self.text.v \o other.text.v), c_links),
         self |-> self, other |-> other]

\* ------------------------------------------------------ the match score
\* contigs(s, minlen) from one start position: the longest first
ContigsAt(s, c_spos, minlen) ==
    [k \in 1..Max(0, Len(s) - c_spos - minlen + 1) |->
        SubSeq(s, c_spos + 1, Len(s) - (k - 1))]

\* contigs(s, minlen): every start position in turn
RECURSIVE contigs_from(_, _, _)
contigs_from(s, c_spos, minlen) ==
    IF c_spos >= Len(s) THEN << >>
    ELSE ContigsAt(s, c_spos, minlen) \o contigs_from(s, c_spos + 1, minlen)

contigs(s, minlen) == contigs_from(s, 0, minlen)

\* the characters escape_regex puts a backslash before
specials == { 46, 94, 36, 42, 43, 63, 123, 125, 91, 93, 124, 40, 41, 92 }

\* escape_regex that escapes nothing
escape_regex_none(s) == s

RECURSIVE escape_regex(_)
escape_regex(s) ==
    IF s = << >> THEN << >>
    ELSE (IF Head(s) \in specials THEN << 92, Head(s) >> ELSE << Head(s) >>)
             \o escape_regex(Tail(s))

\* the pattern as the regex engine reads it: an escaped character stands
\* for itself, a bare '.' for any character but a newline, any other
\* character for itself (the other operators do not occur unescaped here)
RECURSIVE RegexTokens(_)
RegexTokens(pattern) ==
    IF pattern = << >> THEN << >>
    ELSE IF Head(pattern) = 92 /\ Len(pattern) >= 2
    THEN << [any |-> FALSE, ch |-> pattern[2]] >>
             \o RegexTokens(SubSeq(pattern, 3, Len(pattern)))
    ELSE << [any |-> Head(pattern) = 46, ch |-> Head(pattern)] >>
             \o RegexTokens(Tail(pattern))

RegexMatchAt(tokens, source, pos) ==
    /\ pos + Len(tokens) <= Len(source)
    /\ \A k \in 1..Len(tokens) :
           IF tokens[k].any THEN source[pos + k] # 10
           ELSE source[pos + k] = tokens[k].ch

\* len(regex.findall(pattern, source)): the matches found scanning from the
\* left, each search resuming where the last match ended
RECURSIVE FindAllCount(_, _, _)
FindAllCount(tokens, source, pos) ==
    IF pos + Len(tokens) > Len(source) THEN 0
    ELSE IF RegexMatchAt(tokens, source, pos)
    THEN 1 + FindAllCount(tokens, source, pos + Max(1, Len(tokens)))
    ELSE FindAllCount(tokens, source, pos + 1)

\* the loop of match over the contigs
RECURSIVE ScoreContigs(_, _)
ScoreContigs(cs, source) ==
    IF cs = << >> THEN 0
    ELSE FindAllCount(RegexTokens(escape_regex(Head(cs))), source, 0) * Len(Head(cs))
             + ScoreContigs(Tail(cs), source)

\* match(query, source): score / len(source), kept as the two integers
match(query, source) ==
    IF Len(source) = 0
    THEN [err |-> "ZeroDivisionError", num |-> 0, den |-> 0]
    ELSE [err |-> "ok",
          num |-> ScoreContigs(contigs(query, Max(3, Len(source) \div 3)), source),
          den |-> Len(source)]

\* ------------------------------------------------------ the relation store
\* the names relations.py imports; its line 4 calls namedtuple, which is
\* not among them
relations_imports == { "pickle" }

\* executing the module body, as an import of hypernote.relations does
relations_import == IF "namedtuple" \in relations_imports THEN "ok" ELSE "NameError"

Relation(uidA, uidB, typeA, typeB) ==
    [uidA |-> uidA, uidB |-> uidB, typeA |-> typeA, typeB |-> typeB]

\* relations.add(rel)
relations_add(db, rel) == Append(db, rel)

is_match(query, rel) ==
    IF query[1] \in { rel.uidA, rel.uidB }
    THEN IF Len(query) > 1 THEN query[2] \in { rel.uidA, rel.uidB } ELSE TRUE
    ELSE FALSE

\* list(relations.get(query))
relations_get(db, query) == SelectSeq(db, LAMBDA rel : is_match(query, rel))

\* ------------------------------------------------------------ model inputs
sa == << 97 >>
sA == << 65 >>
sb == << 98 >>
sB == << 66 >>
se == << 233 >>
sab == sa \o << 32 >> \o sb

\* two instants, in seconds since the epoch: the first is a binary32
\* value, the second is not
Nows == { 1700000000, 1700000001 }
T0 == CHOOSE n \in Nows : UnpackF(PackF(n)).v = n
T1 == T0 + 1

PlainText(s) == LinkedText(StrV(s), << >>)

ToolNote(uid, name, cmd, ver, desc) ==
    [t |-> "ToolNote", uid |-> IntV(uid), name |-> StrV(name), cmd |-> StrV(cmd),
     ver |-> StrV(ver), desc |-> desc]

ActionNote(uid, shellcmd, toolcmd, time, desc) ==
    [t |-> "ActionNote", uid |-> IntV(uid), shellcmd |-> shellcmd,
     toolcmd |-> toolcmd, time |-> TimeV(time), desc |-> desc]

DataNote(uid, name, path, src, desc) ==
    [t |-> "DataNote", uid |-> IntV(uid), name |-> StrV(name), path |-> StrV(path),
     src |-> src, desc |-> desc]

\* the values handed to the encoders
CodecValues ==
    << IntV(0), IntV(-1), IntV(2147483647), IntV(-2147483647 - 1),
       StrV(<< >>), StrV(sa), StrV(se), StrV(se \o sa),
       FloatV(3), FloatV(16777217),
       TimeV(T0), TimeV(T1),
       LinkedText(StrV(sa \o << 32 >> \o sb), << Link(IntV(0), IntV(1), IntV(5)) >>),
       PlainText(se),
       ToolNote(1, sa, sa, << >>, PlainText(sb)),
       ActionNote(2, PlainText(sa), PlainText(sa), T0, PlainText(<< >>)),
       ActionNote(2, PlainText(sa), PlainText(sa), T1, PlainText(<< >>)),
       DataNote(1, sb, sA, PlainText(<< >>), PlainText(<< >>)) >>

Uids == 1..MaxUid

\* the objects handed to add: notes of the three classes, and a note whose
\* constructor returned before filling any attribute
AddInputs ==
    { ToolNote(u, nc[1], nc[2], << >>, PlainText(<< >>)) :
        u \in Uids, nc \in { << sa, sa >>, << sb, sA >> } }
    \cup { DataNote(u, sB, se, PlainText(<< >>), PlainText(<< >>)) : u \in Uids }
    \cup { ActionNote(1, PlainText(sa), PlainText(sa), T1, PlainText(<< >>)),
           [t |-> "ToolNote", uid |-> IntV(1)] }

Queries == { sa, sA, sb, << 201 >> }

\* what save writes for a registry holding the notes d
Saved(d) == File(SaveLoop(d, << >>).data)

\* data with the five header bytes at offset off replaced
WithHeader(data, off, typecode, version) ==
    SubSeq(data, 1, off) \o << typecode >> \o PackI(version)
        \o SubSeq(data, off + 6, Len(data))

\* the registry files a process can find: none, the empty file init writes,
\* files an earlier run saved, and files holding a record of a format this
\* version has no decoder for (a top-level record, or a string in a record)
FileNotes ==
    << ToolNote(1, sa, sb, << >>, PlainText(<< >>)),
       ActionNote(2, PlainText(sa), PlainText(sa), T0, PlainText(<< >>)),
       DataNote(3, se \o sa, sA \o sb, PlainText(<< >>), PlainText(<< >>)) >>

InitFiles ==
    { NoFile, File(<< >>), Saved(SubSeq(FileNotes, 1, 2)) }
    \cup { File(Saved(<< FileNotes[2] >>).data
                \o WithHeader(Saved(<< FileNotes[1] >>).data, off, h[1], h[2])
                \o Saved(<< FileNotes[3] >>).data) :
             off \in { 0, 14 }, h \in { << 84, 2 >> } }

\* the LinkedText operands: four texts, each with up to MaxLinks links
LinkedTexts ==
    { LinkedText(StrV(t),
                 [i \in 1..n |-> Link(IntV(2 * (i - 1)), IntV(2 * i - 1), IntV(i))]) :
        t \in { << >>, sa, sab, sab \o sab }, n \in 0..MaxLinks }

\* the strings handed to match: "aaa" recurs overlapping in "aaaa", "a.c"
\* holds a regex operator, the ten-letter source has a length no multiple
\* of three, and one source is empty
MatchQueries ==
    { << 97, 97, 97 >>, << 97, 97, 97, 97 >>, << 97, 98, 99 >>, << 97, 46, 99 >>,
      << 97, 98 >>, << 97, 98, 99, 100 >>, << 98, 99, 100, 101 >> }

MatchSources ==
    { << >>, << 97, 97, 97, 97 >>, << 97, 98, 99 >>, << 97, 98, 99, 97, 98, 99 >>,
      << 97, 46, 99, 97, 46, 99 >>,
      << 97, 98, 99, 100, 101, 102, 103, 104, 105, 106 >> }

\* the relations and the queries handed to the relation store
Rels == { Relation(a, b, 0, 1) : a \in Uids, b \in Uids }
RelQueries == { << 1 >>, << 2 >>, << 1, 2 >>, << 2, 1 >> }

\* ------------------------------------------------------------------- state
VARIABLES
    notes,          \* registry.notes: the dict's values in insertion order
    search_table,   \* registry.search_table
    file,           \* the registry file
    op,             \* the last call and what it observed
    err,            \* the exception the last call raised, or "ok"
    ret,            \* what the last call returned
    buf,            \* the bytearray handed to load_object
    vin,            \* the values encoded into buf
    vout,           \* the values load_object has returned
    pc,             \* where the command-line process is
    snapshot,       \* the registry as the last completed save wrote it
    reldb           \* relations.reldb

vars ==
    << notes, search_table, file, op, err, ret, buf, vin, vout, pc, snapshot,
       reldb >>

codecVars == << buf, vin, vout >>
regVars == << notes, search_table, file >>
cliVars == << pc, snapshot >>

NoSnapshot == [valid |-> FALSE, notes |-> << >>, search_table |-> << >>]

\* ------------------------------------------------- the registry's interface
Init ==
    /\ notes = << >>
    /\ search_table = << >>
    /\ file \in InitFiles
    /\ op = [name |-> "import"]
    /\ err = "ok"
    /\ ret = None
    /\ buf = << >>
    /\ vin = << >>
    /\ vout = << >>
    /\ pc = "api"
    /\ snapshot = NoSnapshot
    /\ reldb = << >>

\* registry.add(note)
Add(note) ==
    LET r == add(Registry(notes, search_table), note)
    IN  /\ Len(r.notes) <= MaxNotes
        /\ Len(r.search_table) <= MaxTable
        /\ notes' = r.notes
        /\ search_table' = r.search_table
        /\ err' = r.err
        /\ ret' = None
        /\ op' = [name |-> "add", note |-> note]
        /\ UNCHANGED << file, codecVars, cliVars, reldb >>

\* registry.search(query)
Search(query) ==
    /\ ret' = search(search_table, query)
    /\ err' = "ok"
    /\ op' = [name |-> "search", query |-> query]
    /\ UNCHANGED << regVars, codecVars, cliVars, reldb >>

\* registry.load(path)
Load(path) ==
    LET l == load(path, file, Registry(notes, search_table))
    IN  /\ notes' = l.reg.notes
        /\ search_table' = l.reg.search_table
        /\ err' = l.reg.err
        /\ ret' = None
        /\ op' = [name |-> "load", path |-> path, calls |-> l.calls,
                  decoded |-> l.decoded, left |-> l.left,
                  fresh |-> notes = << >> /\ search_table = << >>]
        /\ UNCHANGED << file, codecVars, cliVars, reldb >>

\* registry.get(uid)
Get(uid) ==
    LET g == get(notes, uid)
    IN  /\ ret' = g.note
        /\ err' = g.err
        /\ op' = [name |-> "get", uid |-> uid]
        /\ UNCHANGED << regVars, codecVars, cliVars, reldb >>

Next ==
    \/ \E note \in AddInputs : Add(note)
    \/ \E query \in Queries : Search(query)
    \/ \E uid \in Uids : Get(IntV(uid))
    \/ \E path \in { None, RegPath } : Load(path)

Spec == Init /\ [][Next]_vars

\* ------------------------------------------------------- the codec, alone
InitCodec ==
    /\ notes = << >>
    /\ search_table = << >>
    /\ file = NoFile
    /\ op = [name |-> "import"]
    /\ err = "ok"
    /\ ret = None
    /\ buf = << >>
    /\ vin = << >>
    /\ vout = << >>
    /\ pc = "api"
    /\ snapshot = NoSnapshot
    /\ reldb = << >>

\* buf += get_encoder(type(v))(v), before any of buf is decoded
Encode(v) ==
    LET e == get_encoder(v)
    IN  /\ Len(vin) < MaxVals
        /\ vout = << >>
        /\ err = "ok"
        /\ buf' = buf \o e.data
        /\ vin' = Append(vin, v)
        /\ err' = e.err
        /\ ret' = None
        /\ op' = [name |-> "encode"]
        /\ UNCHANGED << regVars, vout, cliVars, reldb >>

\* load_object(buf), called while the buffer is not empty and no call raised
LoadObject ==
    LET r == load_object(buf)
    IN  /\ buf # << >>
        /\ err = "ok"
        /\ buf' = r.rest
        /\ vout' = IF r.err = "ok" THEN Append(vout, r.val) ELSE vout
        /\ err' = r.err
        /\ ret' = r.val
        /\ op' = [name |-> "load_object", calls |-> r.calls]
        /\ UNCHANGED << regVars, vin, cliVars, reldb >>

NextCodec ==
    \/ \E i \in 1..Len(CodecValues) : Encode(CodecValues[i])
    \/ LoadObject

SpecCodec == InitCodec /\ [][NextCodec]_vars

\* --------------------------------------------- the command-line processes
\* the field values the commands hand to create_note_standard
CreateInputs ==
    { [type |-> "ToolNote",
       vals |-> [name |-> AUTOFILL, cmd |-> sa, ver |-> AUTOFILL, desc |-> AUTOFILL]],
      [type |-> "ToolNote",
       vals |-> [name |-> sb, cmd |-> sA, ver |-> AUTOFILL_SAFETY, desc |-> sab]],
      [type |-> "ToolNote",
       vals |-> [name |-> se, cmd |-> sb, ver |-> AUTOFILL_SAFETY, desc |-> AUTOFILL]],
      [type |-> "ToolNote",
       vals |-> [name |-> sb, ver |-> AUTOFILL, desc |-> AUTOFILL]],
      [type |-> "ActionNote",
       vals |-> [shellcmd |-> sab, toolcmd |-> AUTOFILL, time |-> AUTOFILL,
                 desc |-> AUTOFILL]],
      [type |-> "ActionNote",
       vals |-> [shellcmd |-> sb, toolcmd |-> sb, time |-> << 120 >>, desc |-> AUTOFILL]],
      [type |-> "ActionNote",
       vals |-> [toolcmd |-> sb, time |-> AUTOFILL, desc |-> AUTOFILL]],
      [type |-> "DataNote",
       vals |-> [name |-> AUTOFILL, path |-> << 47 >> \o sa \o << 47 >> \o sB,
                 src |-> AUTOFILL, desc |-> sa]],
      [type |-> "DataNote",
       vals |-> [name |-> sb, src |-> AUTOFILL, desc |-> AUTOFILL]] }

InitCli ==
    /\ notes = << >>
    /\ search_table = << >>
    /\ file = NoFile
    /\ op = [name |-> "import"]
    /\ err = "ok"
    /\ ret = None
    /\ buf = << >>
    /\ vin = << >>
    /\ vout = << >>
    /\ pc = "exited"
    /\ snapshot = NoSnapshot
    /\ reldb = << >>

\* public_cmd_init: a new process saves its empty registry to ./.hnote
CmdInit ==
    LET w == save(RegPath, file, << >>)
    IN  /\ pc = "exited"
        /\ notes' = << >>
        /\ search_table' = << >>
        /\ file' = w.file
        /\ err' = w.err
        /\ ret' = None
        /\ op' = [name |-> "init"]
        /\ pc' = "exited"
        /\ snapshot' = [valid |-> TRUE, notes |-> << >>, search_table |-> << >>]
        /\ UNCHANGED << codecVars, reldb >>

\* the commands that go through use_reg: the note registration commands
\* (tool, data, action), and run
Commands == { "register", "run" }

\* a new process enters a use_reg command: find_registry, and the
\* RuntimeError when there is no registry
Start(command) ==
    /\ pc = "exited"
    /\ notes' = << >>
    /\ search_table' = << >>
    /\ err' = IF file.exists THEN "ok" ELSE "RuntimeError"
    /\ pc' = IF ~file.exists THEN "exited"
             ELSE IF command = "run" THEN "run_load" ELSE "load"
    /\ ret' = None
    /\ op' = [name |-> "find_registry"]
    /\ UNCHANGED << file, snapshot, codecVars, reldb >>

\* use_reg: registry.load(path). It runs once in a note registration
\* command; public_cmd_run is wrapped by use_reg and calls public_cmd_action,
\* which is wrapped by use_reg as well, so there it runs at "run_load" and
\* again at "run_action", on the registry the first load filled. nth counts
\* the loads of the process.
LoadRegistry ==
    LET l == load(RegPath, file, Registry(notes, search_table))
    IN  /\ pc \in { "load", "run_load", "run_action" }
        /\ notes' = l.reg.notes
        /\ search_table' = l.reg.search_table
        /\ err' = l.reg.err
        /\ ret' = None
        /\ op' = [name |-> "load", path |-> RegPath, calls |-> l.calls,
                  decoded |-> l.decoded, left |-> l.left,
                  fresh |-> notes = << >> /\ search_table = << >>,
                  nth |-> IF pc = "run_action" THEN 2 ELSE 1]
        /\ pc' = IF l.reg.err # "ok" THEN "exited"
                 ELSE IF pc = "load" THEN "cmd"
                 ELSE IF pc = "run_load" THEN "run_action"
                 ELSE "run_cmd"
        /\ UNCHANGED << file, snapshot, codecVars, reldb >>

\* gen_uid_possibility(): random.getrandbits(31), drawn here from the
\* small identifiers and the upper end of the 31-bit range
gen_uid_possibility == Uids \cup { 2147483647 }

\* gen_uid without the loop that resamples on a collision
gen_uid_unchecked(d) == gen_uid_possibility

\* gen_uid(): the values the loop can return, those no note is stored under
gen_uid(d) ==
    { uid \in gen_uid_possibility : \A i \in 1..Len(d) : ~PyEq(d[i].uid, IntV(uid)) }

\* use_reg: inner(args), a note registration command calling
\* create_note_standard on the values the editor returned; at "run_cmd" it
\* is public_cmd_action called by public_cmd_run
CreateNote(note_type, vals) ==
    /\ pc \in { "cmd", "run_cmd" }
    /\ pc = "run_cmd" => note_type = "ActionNote"
    /\ \E uid \in gen_uid(notes) :
       \E detect \in (IF note_type = "ToolNote" /\ "cmd" \in DOMAIN vals
                      THEN DetectOutcomes ELSE { "None" }) :
       \E now \in (IF note_type = "ActionNote" /\ "shellcmd" \in DOMAIN vals
                      /\ vals.time = AUTOFILL
                   THEN Nows ELSE { T0 }) :
       \E new_note \in { Note__init__(note_type, uid, vals,
                                      Registry(notes, search_table),
                                      [detect |-> detect, now |-> now,
                                       registryFound |-> file.exists]) } :
       \E answers \in BOOLEAN \X BOOLEAN :
       \E r \in { create_note_standard(new_note, Registry(notes, search_table),
                                       answers) } :
           /\ Len(r.notes) <= MaxNotes
           /\ notes' = r.notes
           /\ search_table' = r.search_table
           /\ err' = r.err
           /\ ret' = IF r.err = "ok" THEN IntV(uid) ELSE None
           /\ op' = [name |-> "create", type |-> note_type, vals |-> vals,
                     uid |-> uid, detect |-> detect, built |-> new_note.note,
                     raised |-> new_note.err,
                     cstatus |-> new_note.cstatus]
           /\ pc' = IF r.err # "ok" THEN "exited"
                    ELSE IF pc = "cmd" THEN "save"
                    ELSE "run_inner_save"
           /\ UNCHANGED << file, snapshot, codecVars, reldb >>

\* use_reg: registry.save(path) and the return of the command's value; in
\* the run command once for public_cmd_action ("run_inner_save") and once
\* for public_cmd_run ("run_save")
SaveRegistry ==
    LET w == save(RegPath, file, notes)
    IN  /\ pc \in { "save", "run_inner_save", "run_save" }
        /\ file' = w.file
        /\ err' = w.err
        /\ ret' = IF w.err = "ok" THEN ret ELSE None
        /\ op' = [name |-> "save"]
        /\ pc' = IF w.err = "ok" /\ pc = "run_inner_save" THEN "run_body"
                 ELSE "exited"
        /\ snapshot' = IF w.err = "ok"
                       THEN [valid |-> TRUE, notes |-> notes,
                             search_table |-> search_table]
                       ELSE NoSnapshot
        /\ UNCHANGED << notes, search_table, codecVars, reldb >>

\* public_cmd_run: registry.get(uid).shellcmd.text and subprocess.run of it
\* (shell=True, its exit status is not looked at)
public_cmd_run ==
    LET g == get(notes, ret)
        e == IF g.err # "ok" THEN g.err
             ELSE IF "shellcmd" \notin DOMAIN g.note THEN "AttributeError"
             ELSE "ok"
    IN  /\ pc = "run_body"
        /\ err' = e
        /\ op' = [name |-> "subprocess.run",
                  shellcmd |-> IF e = "ok" THEN g.note.shellcmd.text ELSE << >>]
        /\ ret' = IF e = "ok" THEN ret ELSE None
        /\ pc' = IF e = "ok" THEN "run_save" ELSE "exited"
        /\ UNCHANGED << notes, search_table, file, snapshot, codecVars, reldb >>

NextCli ==
    \/ CmdInit
    \/ \E command \in Commands : Start(command)
    \/ LoadRegistry
    \/ \E i \in CreateInputs : CreateNote(i.type, i.vals)
    \/ SaveRegistry
    \/ public_cmd_run

SpecCli == InitCli /\ [][NextCli]_vars

\* ------------------------------------ the library functions, called alone
InitLib ==
    /\ notes = << >>
    /\ search_table = << >>
    /\ file = NoFile
    /\ op = [name |-> "import"]
    /\ err = "ok"
    /\ ret = None
    /\ buf = << >>
    /\ vin = << >>
    /\ vout = << >>
    /\ pc = "api"
    /\ snapshot = NoSnapshot
    /\ reldb = << >>

\* a + b on two LinkedText objects
Concat(a, b) ==
    LET r == LinkedText__add__(a, b)
    IN  /\ ret' = r.ret
        /\ err' = "ok"
        /\ op' = [name |-> "LinkedText.__add__", a0 |-> a, b0 |-> b,
                  a |-> r.self, b |-> r.other]
        /\ UNCHANGED << regVars, codecVars, cliVars, reldb >>

\* registry.match(query, source)
Match(query, source) ==
    LET m == match(query, source)
    IN  /\ ret' = m
        /\ err' = m.err
        /\ op' = [name |-> "match", query |-> query, source |-> source]
        /\ UNCHANGED << regVars, codecVars, cliVars, reldb >>

\* a client imports hypernote.relations and calls relations.add(rel)
RelAdd(rel) ==
    /\ Len(reldb) < MaxRels
    /\ err' = relations_import
    /\ reldb' = IF relations_import = "ok" THEN relations_add(reldb, rel) ELSE reldb
    /\ ret' = None
    /\ op' = [name |-> "relations.add", rel |-> rel]
    /\ UNCHANGED << regVars, codecVars, cliVars >>

\* a client imports hypernote.relations and reads relations.get(query)
RelGet(query) ==
    /\ err' = relations_import
    /\ ret' = IF relations_import = "ok" THEN relations_get(reldb, query) ELSE None
    /\ op' = [name |-> "relations.get", query |-> query]
    /\ UNCHANGED << regVars, codecVars, cliVars, reldb >>

NextLib ==
    \/ \E a \in LinkedTexts : \E b \in LinkedTexts : Concat(a, b)
    \/ \E query \in MatchQueries : \E source \in MatchSources : Match(query, source)
    \/ \E rel \in Rels : RelAdd(rel)
    \/ \E query \in RelQueries : RelGet(query)

SpecLib == InitLib /\ [][NextLib]_vars


\* equal values: same type, same content
SameVal(a, b) == a.t = b.t /\ a = b

\* the concatenated encodings of a sequence of values
RECURSIVE EncodeAll(_)
EncodeAll(vs) ==
    IF vs = << >> THEN << >> ELSE get_encoder(Head(vs)).data \o EncodeAll(Tail(vs))

\* C1: for every supported non-float value v, load_object on the bytes of
\* encode(v) returns a value equal to v field for field.
C1_RoundTrip ==
    (op.name = "load_object" /\ Len(vin) = 1 /\ vin[1].t # "float")
        => (err = "ok" /\ Len(vout) = 1 /\ SameVal(vout[1], vin[1]))

\* C2: saving a registry that holds notes of mixed variants and loading the
\* saved file into a fresh registry gives the same notes in the same order,
\* equal in every field (the ActionNote timestamp included), and the same
\* search index.
C2_SaveLoad ==
    (/\ op.name = "load"
     /\ op.fresh
     /\ snapshot.valid
     /\ \E i, j \in 1..Len(snapshot.notes) : snapshot.notes[i].t # snapshot.notes[j].t)
        => (/\ err = "ok"
            /\ notes = snapshot.notes
            /\ search_table = snapshot.search_table)

\* the note has every searchable attribute, and one of them equals, without
\* regard to case, the text of an entry of the table
Collides(table, note) ==
    /\ IsNote(note)
    /\ \A k \in 1..Len(searchable(note)) : searchable(note)[k] \in DOMAIN note
    /\ \E k \in 1..Len(searchable(note)) : \E i \in 1..Len(table) :
           lower(table[i].text) = lower(note[searchable(note)[k]].v)

\* C3: add(note) with a searchable field that collides, without regard to
\* case, with an existing index entry fails with the duplicate-field error
\* and leaves the note map and the search index exactly as they were.
C3_AddAtomic ==
    [][(op'.name = "add" /\ Collides(search_table, op'.note))
        => (err' = "RuntimeError" /\ notes' = notes /\ search_table' = search_table)]_vars

\* a rejected add whose first searchable field was free and whose second
\* collided
C3_Witness ==
    /\ op.name = "add"
    /\ err = "RuntimeError"
    /\ op.note.t = "ToolNote"
    /\ search(search_table, op.note.name.v) = << >>
    /\ search(search_table, op.note.cmd.v) # << >>

\* C4: no two index entries of different identifiers have texts that are
\* equal without regard to case.
C4_Unique ==
    \A i, j \in 1..Len(search_table) :
        ~PyEq(search_table[i].uid, search_table[j].uid)
            => lower(search_table[i].text) # lower(search_table[j].text)

\* entries of two identifiers are indexed, and an add whose field differs
\* from an indexed text only in case has just been rejected
C4_Witness ==
    /\ \E i, j \in 1..Len(search_table) :
           ~PyEq(search_table[i].uid, search_table[j].uid)
    /\ op.name = "add"
    /\ err = "RuntimeError"
    /\ \E k \in 1..Len(searchable(op.note)) : \E i \in 1..Len(search_table) :
           /\ search_table[i].text # op.note[searchable(op.note)[k]].v
           /\ lower(search_table[i].text) = lower(op.note[searchable(op.note)[k]].v)

C7_MissingFileIsNoError ==
    (op.name = "load" /\ op.path = RegPath /\ ~file.exists /\ op.fresh)
        => (err = "ok" /\ notes = << >> /\ search_table = << >>)

\* C7, amended: load on a path where no file exists raises FileNotFoundError
\* and leaves the note map and the index as they were; load(None) returns
\* normally and leaves them as they were.
C7_MissingFileRaises ==
    [][(op'.name = "load" /\ (op'.path = None \/ ~file.exists))
        => /\ err' = (IF op'.path = None THEN "ok" ELSE "FileNotFoundError")
           /\ notes' = notes
           /\ search_table' = search_table]_vars

\* load of the registry path, no file there, registry empty before and after
C7_Witness ==
    /\ op.name = "load"
    /\ op.path = RegPath
    /\ ~file.exists
    /\ op.fresh
    /\ err = "FileNotFoundError"
    /\ notes = << >>
    /\ search_table = << >>

\* the decoder the wrapper registers for a pair, "none" for any other pair
RegisteredDecoder(tc, ver) ==
    IF ver # 1 THEN "none"
    ELSE CASE tc = 115 -> "d_s_1"
           [] tc = 105 -> "d_i_1"
           [] tc = 102 -> "d_f_1"
           [] tc = 116 -> "d_t_1"
           [] tc = 76 -> "d_L_1"
           [] tc = 84 -> "d_T_1"
           [] tc = 65 -> "d_A_1"
           [] tc = 68 -> "d_D_1"
           [] OTHER -> "none"

\* C8: every load_object call of a load invokes the decoder registered for
\* exactly the (tag, version) pair it read; for an unregistered pair it
\* invokes none, the load fails with the unknown-format error (KeyError)
\* and that call is the last one the load makes.
C8_Dispatch ==
    op.name = "load" =>
        \A i \in 1..Len(op.calls) :
            /\ op.calls[i].dec = RegisteredDecoder(op.calls[i].tc, op.calls[i].ver)
            /\ op.calls[i].dec = "none" => (err = "KeyError" /\ i = Len(op.calls))

\* a load that decoded and added a record, then met an unregistered pair
\* with further records behind it
C8_Witness ==
    /\ op.name = "load"
    /\ err = "KeyError"
    /\ op.decoded >= 1
    /\ Len(notes) >= 1
    /\ op.left # << >>
    /\ op.calls[Len(op.calls)].ver = 2

\* C9: repeated load_object calls on encode(v1) + ... + encode(vn) return
\* v1..vn in order, each call removing exactly the bytes of one encoded
\* value, and the buffer is empty after the n-th call.
C9_FrontToBack ==
    op.name = "load_object" =>
        /\ err = "ok"
        /\ Len(vout) <= Len(vin)
        /\ \A i \in 1..Len(vout) : SameVal(vout[i], vin[i])
        /\ buf = EncodeAll(SubSeq(vin, Len(vout) + 1, Len(vin)))

\* the index of the first entry of uid whose text matches the query
FirstMatch(table, query, uid) ==
    CHOOSE i \in 1..Len(table) :
        /\ PyEq(table[i].uid, uid) /\ lower(table[i].text) = lower(query)
        /\ \A j \in 1..(i - 1) :
               ~(PyEq(table[j].uid, uid) /\ lower(table[j].text) = lower(query))

\* C10: search(query) returns exactly the identifiers with an index entry
\* whose text equals query without regard to case, each once, ordered by
\* the position of the first matching entry, and changes nothing.
C10_Search ==
    [][op'.name = "search" =>
        LET q == op'.query
            Matches(i) == lower(search_table[i].text) = lower(q)
        IN  /\ \A k \in 1..Len(ret') : \E i \in 1..Len(search_table) :
                   Matches(i) /\ PyEq(search_table[i].uid, ret'[k])
            /\ \A i \in 1..Len(search_table) :
                   Matches(i) => \E k \in 1..Len(ret') : PyEq(ret'[k], search_table[i].uid)
            /\ \A k, l \in 1..Len(ret') : k # l => ~PyEq(ret'[k], ret'[l])
            /\ \A k, l \in 1..Len(ret') : k < l =>
                   FirstMatch(search_table, q, ret'[k]) < FirstMatch(search_table, q, ret'[l])
            /\ notes' = notes
            /\ search_table' = search_table]_vars

\* a search that found an identifier with two matching entries, the query
\* differing from an indexed text in case
C10_Witness ==
    /\ op.name = "search"
    /\ Len(ret) = 1
    /\ \E i, j \in 1..Len(search_table) :
           /\ i < j
           /\ lower(search_table[i].text) = lower(op.query)
           /\ lower(search_table[j].text) = lower(op.query)
           /\ search_table[i].text # op.query

\* C11: gen_uid returns only values in [0, 2^31) that are not keys of the
\* note map, so a create that registers its note adds one entry to the map
\* and replaces none: no two registered notes share an identifier.
C11_GenUidFresh ==
    [][op'.name = "create" =>
          /\ op'.uid \in 0..2147483647
          /\ \A i \in 1..Len(notes) : ~PyEq(notes[i].uid, IntV(op'.uid))
          /\ err' = "ok" =>
                /\ Len(notes') = Len(notes) + 1
                /\ SubSeq(notes', 1, Len(notes)) = notes
                /\ PyEq(notes'[Len(notes')].uid, IntV(op'.uid))]_vars

\* a create registered a second note, beside one a previous process saved
C11_Witness ==
    /\ op.name = "create"
    /\ err = "ok"
    /\ Len(notes) = 2
    /\ snapshot.valid
    /\ Len(snapshot.notes) = 1

\* [s, e) is a maximal run of non-whitespace characters of text
IsWord(text, s, e) ==
    /\ 0 <= s /\ s < e /\ e <= Len(text)
    /\ \A k \in (s + 1)..e : text[k] \notin { 32, 9, 10 }
    /\ s = 0 \/ text[s] \in { 32, 9, 10 }
    /\ e = Len(text) \/ text[e + 1] \in { 32, 9, 10 }

\* lt carries, from left to right, one link per word of its text that the
\* index matches, over the word's span and to the first identifier found
LinksMatchedWords(lt, table) ==
    LET text == lt.text.v
        n == Len(lt.links)
    IN  /\ \A i \in 1..n :
              /\ lt.links[i].start.t = "int" /\ lt.links[i].end.t = "int"
              /\ IsWord(text, lt.links[i].start.v, lt.links[i].end.v)
              /\ search(table, SubSeq(text, lt.links[i].start.v + 1,
                                      lt.links[i].end.v)) # << >>
              /\ PyEq(lt.links[i].dest,
                      search(table, SubSeq(text, lt.links[i].start.v + 1,
                                           lt.links[i].end.v))[1])
        /\ \A i, j \in 1..n : i < j => lt.links[i].start.v < lt.links[j].start.v
        /\ \A s \in 0..Len(text) : \A e \in 0..Len(text) :
              (IsWord(text, s, e) /\ search(table, SubSeq(text, s + 1, e)) # << >>)
                  => \E i \in 1..n : lt.links[i].start.v = s /\ lt.links[i].end.v = e

\* C12: every field a note constructor autolinks holds the text it was
\* given, unchanged, and exactly one link per whitespace-delimited word
\* that registry search matches, in left-to-right order, spanning the
\* word's [start, end) and leading to the first identifier search returns.
C12_Autolink ==
    [][op'.name = "create" =>
          \A f \in { "shellcmd", "toolcmd", "src", "desc" } :
              (f \in DOMAIN op'.built /\ op'.built[f].t = "LinkedText") =>
                  /\ (f # "toolcmd" \/ op'.vals[f] # AUTOFILL)
                         => op'.built[f].text.v = op'.vals[f]
                  /\ LinksMatchedWords(op'.built[f], search_table)]_vars

\* an action note built from the command "a b": the first word matches no
\* note and gets no link, the second is linked to the data note named "B"
C12_Witness ==
    /\ op.name = "create"
    /\ op.type = "ActionNote"
    /\ "shellcmd" \in DOMAIN op.built
    /\ op.built.shellcmd.text.v = sab
    /\ Len(op.built.shellcmd.links) = 1
    /\ op.built.shellcmd.links[1].start.v = 2
    /\ op.built.shellcmd.links[1].end.v = 3
    /\ \E i \in 1..Len(notes) :
          /\ notes[i].t = "DataNote"
          /\ notes[i].name.v = sB
          /\ PyEq(notes[i].uid, op.built.shellcmd.links[1].dest)

\* C13: a ToolNote created with the empty sentinel as name stores its cmd
\* as name; the version is detected only when ver is '@@', and a version
\* found is stored and recorded in unsure_fields; with the empty sentinel as
\* ver the constructor returns normally whatever detection would have
\* answered, with ver left empty, autofill_failed clear and no unsure field.
C13_ToolAutofill ==
    [][(/\ op'.name = "create"
        /\ op'.type = "ToolNote"
        /\ { "name", "cmd", "ver" } \subseteq DOMAIN op'.vals) =>
          /\ (op'.raised = "ok" /\ op'.vals.name = AUTOFILL)
                 => op'.built.name = StrV(op'.vals.cmd)
          /\ op'.vals.ver # AUTOFILL_SAFETY =>
                 /\ op'.raised = "ok"
                 /\ op'.built.ver = StrV(op'.vals.ver)
                 /\ ~op'.cstatus.autofill_failed
                 /\ ~op'.cstatus.autofill_unsure
                 /\ op'.cstatus.unsure_fields = << >>
          /\ (op'.vals.ver = AUTOFILL_SAFETY /\ op'.detect = "found") =>
                 /\ op'.raised = "ok"
                 /\ op'.built.ver = StrV(DetectedVersion)
                 /\ ~op'.cstatus.autofill_failed
                 /\ op'.cstatus.unsure_fields = << "ver" >>]_vars

\* a tool note created from its cmd alone, where the tool would answer a
\* version query: name is the cmd, ver stays empty, and it is registered
C13_Witness ==
    /\ op.name = "create"
    /\ op.type = "ToolNote"
    /\ op.vals = [name |-> AUTOFILL, cmd |-> sa, ver |-> AUTOFILL, desc |-> AUTOFILL]
    /\ op.detect = "found"
    /\ op.built.name = StrV(sa)
    /\ op.built.ver = StrV(<< >>)
    /\ op.cstatus.unsure_fields = << >>
    /\ err = "ok"

\* C14: (A + B).text is A.text followed by B.text; the links of A + B are
\* the links of A unchanged, then the links of B in order with start and end
\* raised by len(A.text) and the same destinations; A and B are as before.
C14_Concat ==
    op.name = "LinkedText.__add__" =>
        LET A == op.a0
            B == op.b0
            n == Len(A.links)
        IN  /\ ret.text = StrV(A.text.v \o B.text.v)
            /\ Len(ret.links) = n + Len(B.links)
            /\ \A i \in 1..n : ret.links[i] = A.links[i]
            /\ \A i \in 1..Len(B.links) :
                  /\ ret.links[n + i].start = IntV(B.links[i].start.v + Len(A.text.v))
                  /\ ret.links[n + i].end = IntV(B.links[i].end.v + Len(A.text.v))
                  /\ ret.links[n + i].dest = B.links[i].dest
            /\ op.a = A
            /\ op.b = B

\* "a b" with one link, plus "a" with two links: three links, the last two
\* moved three characters to the right
C14_Witness ==
    /\ op.name = "LinkedText.__add__"
    /\ op.a0.text.v = sab
    /\ Len(op.a0.links) = 1
    /\ Len(op.b0.links) = 2
    /\ Len(ret.links) = 3
    /\ ret.links[3].start.v = 5

\* the relation names every identifier of the query
NamesAll(query, rel) == \A k \in 1..Len(query) : query[k] \in { rel.uidA, rel.uidB }

\* C15: relations.add appends the relation to the end of the list, without
\* deduplication; relations.get(query) yields, in insertion order, exactly
\* the stored relations that name every identifier of the query.
C15_RelationStore ==
    [][/\ op'.name = "relations.add" =>
              (err' = "ok" /\ reldb' = Append(reldb, op'.rel))
       /\ op'.name = "relations.get" =>
              (/\ err' = "ok"
               /\ reldb' = reldb
               /\ ret' = SelectSeq(reldb, LAMBDA rel : NamesAll(op'.query, rel)))]_vars

\* the positions of source at which sub occurs, overlapping ones included
Occurrences(sub, source) ==
    Cardinality({ p \in 0..(Len(source) - Len(sub)) :
                    SubSeq(source, p + 1, p + Len(sub)) = sub })

\* the occurrences of sub counted from the left, each one starting at or
\* after the end of the one counted before it
DisjointOccurrences(sub, source) ==
    LET n == Len(sub)
        g[p \in 0..(Len(source) + 1)] ==
            IF p + n > Len(source) THEN 0
            ELSE IF SubSeq(source, p + 1, p + n) = sub THEN 1 + g[p + n]
            ELSE g[p + 1]
    IN  g[0]

\* the sum, over the substrings of query (one per start position and
\* length) whose length is long enough, of count times length
SubstringScore(query, source, LongEnough(_), Count(_, _)) ==
    LET L == Len(query)
        term(k) ==
            LET c_spos == k \div L
                c_len == (k % L) + 1
            IN  IF c_spos + c_len <= L /\ LongEnough(c_len)
                THEN Count(SubSeq(query, c_spos + 1, c_spos + c_len), source) * c_len
                ELSE 0
        f[k \in 0..(L * L)] == IF k = 0 THEN 0 ELSE f[k - 1] + term(k - 1)
    IN  f[L * L]

\* C16 as stated: match(query, source) is, for every query and source, the
\* sum over the substrings of query at least max(3, len(source)/3) long of
\* (occurrences in source) times (length), divided by len(source).
C16_MatchScore ==
    op.name = "match" =>
        /\ err = "ok"
        /\ ret.den = Len(op.source)
        /\ ret.num = SubstringScore(op.query, op.source,
                         LAMBDA n : n >= 3 /\ 3 * n >= Len(op.source), Occurrences)

\* C16, amended: for a non-empty source the score is the sum over the
\* substrings of query at least max(3, floor(len(source)/3)) long of
\* (occurrences in source that do not overlap, counted from the left) times
\* (length), divided by len(source); for the empty source match raises
\* ZeroDivisionError.
C16_MatchScoreFloor ==
    op.name = "match" =>
        IF op.source = << >> THEN err = "ZeroDivisionError"
        ELSE /\ err = "ok"
             /\ ret.den = Len(op.source)
             /\ ret.num = SubstringScore(op.query, op.source,
                              LAMBDA n : n >= 3 /\ n >= Len(op.source) \div 3,
                              DisjointOccurrences)

\* "abc" scored against a ten-letter source that starts with it: the
\* three-letter substring counts, although 3 < 10/3
C16_Witness ==
    /\ op.name = "match"
    /\ op.query = << 97, 98, 99 >>
    /\ Len(op.source) = 10
    /\ ret.num = 3
    /\ ret.den = 10

\* C17: get(uid) returns the note stored under uid when there is one and
\* fails with KeyError, the not-found error, when there is none; either way
\* the note map and the search index stay as they were.
C17_Get ==
    [][op'.name = "get" =>
          /\ notes' = notes
          /\ search_table' = search_table
          /\ IF \E i \in 1..Len(notes) : PyEq(notes[i].uid, op'.uid)
             THEN /\ err' = "ok"
                  /\ \E i \in 1..Len(notes) :
                        PyEq(notes[i].uid, op'.uid) /\ ret' = notes[i]
             ELSE err' = "KeyError"]_vars

\* a get that found the second of two stored notes
C17_Witness ==
    /\ op.name = "get"
    /\ Len(notes) = 2
    /\ err = "ok"
    /\ ret = notes[2]


\* the notes of the registry are stored under pairwise different identifiers
StoredOnce(d) ==
    \A i, j \in 1..Len(d) : PyEq(d[i].uid, d[j].uid) => i = j

\* C18: a command run through the load, mutate, save wrapper reads the
\* registry file into the registry once per process, the run command
\* included; when the file holds notes, the run command's further steps
\* leave them as loaded, and a run that ends well has saved every earlier
\* note once plus the new action note.
C18_RunWrapper ==
    [][/\ (op'.name = "load" => op'.nth = 1)
       /\ ((pc = "run_action" /\ notes # << >>)
            => (err' = "ok" /\ notes' = notes /\ search_table' = search_table))
       /\ ((pc = "run_save" /\ pc' = "exited" /\ err' = "ok")
            => (/\ snapshot'.valid
                /\ snapshot'.notes = notes
                /\ StoredOnce(notes)
                /\ \E i \in 1..Len(notes) :
                       notes[i].t = "ActionNote" /\ PyEq(notes[i].uid, ret)))]_vars


\* the number of entries of the table with this text and this uid
EntryCount(table, text, uid) ==
    Cardinality({ i \in 1..Len(table) :
                    table[i].text = text /\ PyEq(table[i].uid, uid) })

\* the number of searchable fields of the note whose string is this text
FieldCount(note, text) ==
    Cardinality({ k \in 1..Len(searchable(note)) :
                    /\ searchable(note)[k] \in DOMAIN note
                    /\ Str(note[searchable(note)[k]]).s = text })

\* every entry of the table names a stored note and carries the string of
\* one of its searchable fields, and every stored note has one entry per
\* searchable field
IndexConsistent(d, table) ==
    /\ \A i \in 1..Len(table) : \E j \in 1..Len(d) :
           /\ PyEq(d[j].uid, table[i].uid)
           /\ FieldCount(d[j], table[i].text)
                  = EntryCount(table, table[i].text, table[i].uid)
    /\ \A j \in 1..Len(d) :
           Cardinality({ i \in 1..Len(table) : PyEq(table[i].uid, d[j].uid) })
              = Len(searchable(d[j]))

\* C19: an add call, accepted or rejected, under any identifier, takes a
\* registry whose search index is consistent with its note map (the empty
\* registry is) to one whose index is consistent: every entry (text, uid)
\* has uid in the note map with text the string of one of that note's
\* searchable fields, and every stored note has exactly one entry per
\* searchable field.
C19_IndexConsistent ==
    [][(op'.name = "add" /\ IndexConsistent(notes, search_table))
        => IndexConsistent(notes', search_table')]_vars

====
